---------------------------- MODULE Spec2Model ----------------------------
(***************************************************************************)
(* Restaurant menu / inventory backend (main1.py) and the user             *)
(* registration / login / password-change service (users.py), both over    *)
(* the SQLite file users.db.                                               *)
(*                                                                         *)
(* Three specifications share the module:                                  *)
(*   Spec          the Menu Service, one action per request handler        *)
(*   SpecIdentity  the Identity Service, one action per request handler    *)
(*   SpecConc      two add_dish requests served by two worker processes,   *)
(*                 one action per SQL statement                            *)
(***************************************************************************)
EXTENDS Integers, Sequences, FiniteSets, TLC

VARIABLES
    dishes,   \* rows of table dishes
    seq,      \* sqlite_sequence entry of dishes (largest rowid ever used)
    last,     \* Menu Service: the last request and its response
    users,    \* rows of table users
    useq,     \* sqlite_sequence entry of users
    now,      \* wall clock, in hours
    cookie,   \* the browser's jwt_token cookie
    page,     \* Identity Service: the last request and its rendered page
    procs     \* SpecConc: the two in-flight add_dish requests

vars == <<dishes, seq, last, users, useq, now, cookie, page, procs>>

menuVars == <<dishes, seq, last>>
identityVars == <<users, useq, now, cookie, page>>

(***************************************************************************)
(* Bounds of the model                                                     *)
(***************************************************************************)
\* largest AUTOINCREMENT id the dishes table may hand out
MaxId == 3
\* last hour of the clock
MaxTime == 3

(***************************************************************************)
(* Values                                                                  *)
(***************************************************************************)
HTTP_200_OK == 200
HTTP_201_CREATED == 201
HTTP_400_BAD_REQUEST == 400
HTTP_401_UNAUTHORIZED == 401
HTTP_404_NOT_FOUND == 404
\* an exception no handler catches: the framework answers 500
HTTP_500_INTERNAL_SERVER_ERROR == 500

\* Optional[int]: None is <<>>, the integer n is <<n>>
None == <<>>
Some(n) == <<n>>

\* the request bodies a client may send: values of the pydantic model Dish
Dish ==
    {[id |-> 3, name |-> "Dal Tadka", category_id |-> 5,
      availability |-> TRUE, stock |-> Some(20)],
     [id |-> 99, name |-> "Dal Tadka", category_id |-> 1,
      availability |-> FALSE, stock |-> None],
     [id |-> 1, name |-> "Onion Pakoda", category_id |-> 1,
      availability |-> TRUE, stock |-> Some(20)],
     [id |-> 99, name |-> "Onion Pakoda", category_id |-> 5,
      availability |-> TRUE, stock |-> None]}
CategoryIds == {b.category_id : b \in Dish}
StockQuantities == {0}

\* the Authorization header: absent, or a scheme and its parameter
NoHeader == [scheme |-> "", param |-> ""]
Headers ==
    {NoHeader,
     [scheme |-> "Bearer", param |-> "alice"],
     [scheme |-> "Bearer", param |-> "garbage"]}

\* path parameters dish_id
DishIds == 1..MaxId

(***************************************************************************)
(* SQLite value adaptation                                                 *)
(***************************************************************************)
\* a Python bool bound to a parameter is stored as the integer 1 or 0
BoolToSql(b) == IF b THEN 1 ELSE 0
\* response_model=Dish reads the stored integer back as a bool
SqlToBool(i) == i = 1

\* dict(row) passed through response_model=Dish
RowToDish(r) ==
    [id |-> r.id, name |-> r.name, category_id |-> r.category_id,
     availability |-> SqlToBool(r.availability), stock |-> r.stock]

\* fetchall: the rows of a result set in rowid order, each as dict(row)
RECURSIVE RowDicts(_)
RowDicts(S) ==
    IF S = {} THEN <<>>
    ELSE LET r == CHOOSE x \in S : \A y \in S : x.id <= y.id
         IN <<r>> \o RowDicts(S \ {r})

\* the same list through response_model=List[Dish]
RowsInOrder(S) == [i \in 1..Len(RowDicts(S)) |-> RowToDish(RowDicts(S)[i])]

(***************************************************************************)
(* Bearer-token gate                                                       *)
(***************************************************************************)
\* the gate built with auto_error=False: a missing header is let through
oauth_scheme_auto_error_off(h) == TRUE

\* OAuth2PasswordBearer: 401 unless the header is present with scheme bearer
oauth_scheme(h) == h # NoHeader /\ h.scheme = "Bearer"

(***************************************************************************)
(* Table dishes: schema and statements                                     *)
(***************************************************************************)
\* the seed rows of startup.  The categories table is seeded too; no statement
\* of the service reads it and SQLite does not enforce the foreign key (PRAGMA
\* foreign_keys is off), so it is left out.
SeedDishes ==
    <<[id |-> 1, name |-> "Onion Pakoda", category_id |-> 1,
       availability |-> TRUE, stock |-> 10],
      [id |-> 2, name |-> "Mixed Veg Pakoda", category_id |-> 1,
       availability |-> TRUE, stock |-> 15]>>

\* name TEXT NOT NULL UNIQUE: a row other than `except` already holds the name
NameTaken(d, name, except) ==
    \E r \in d : r.name = name /\ r.id # except

\* the existence check with its two bind parameters swapped:
\* (dish.category_id, dish.name) for WHERE name = ? AND category_id = ?
PairExistsSwapped(d, name, category_id) ==
    \E r \in d : r.name = ToString(category_id) /\ ToString(r.category_id) = name

\* SELECT * FROM dishes WHERE name = ? AND category_id = ?  (fetchone)
PairExists(d, name, category_id) ==
    \E r \in d : r.name = name /\ r.category_id = category_id

\* SELECT * FROM dishes WHERE id = ?
RowsWithId(d, dish_id) == {r \in d : r.id = dish_id}

\* INSERT OR IGNORE of one seed row with an explicit id
InsertOrIgnore(st, s) ==
    IF (\E r \in st.d : r.id = s.id) \/ NameTaken(st.d, s.name, 0)
    THEN st
    ELSE [d |-> st.d \cup {[id |-> s.id, name |-> s.name,
                            category_id |-> s.category_id,
                            availability |-> BoolToSql(s.availability),
                            stock |-> Some(s.stock)]},
          q |-> IF s.id > st.q THEN s.id ELSE st.q]

\* the seed loop of startup over an existing table
Seeded(d, q) ==
    InsertOrIgnore(InsertOrIgnore([d |-> d, q |-> q], SeedDishes[1]), SeedDishes[2])

\* in_stock counted from the stock column: WHERE availability = 1 AND stock > 0
InStockCountByStock(d) ==
    Cardinality({r \in d : r.availability = 1 /\ r.stock # None /\ r.stock[1] > 0})

\* the report's two subqueries
InStockCount(d) == Cardinality({r \in d : r.availability = 1})
OutOfStockCount(d) == Cardinality({r \in d : r.availability = 0})

(***************************************************************************)
(* Menu Service                                                            *)
(***************************************************************************)
NoContent == <<>>

Response(op, h, dish_id, body, status, content, conn) ==
    [op |-> op, auth |-> h, dish_id |-> dish_id, body |-> body,
     status |-> status, content |-> content, conn |-> conn]

\* the gate rejects before the handler runs: no connection is opened
Rejected(op, h) ==
    Response(op, h, 0, <<>>, HTTP_401_UNAUTHORIZED, NoContent, "none")

startup ==
    /\ dishes' = Seeded(dishes, seq).d
    /\ seq' = Seeded(dishes, seq).q
    /\ last' = Response("startup", NoHeader, 0, <<>>, 0, NoContent, "closed")

\* {"id": dish_id, **dish.dict()}: the later key wins
AddContent(dish_id, dish) == dish @@ [id |-> dish_id]

add_dish(h, dish) ==
    IF ~oauth_scheme(h)
    THEN /\ last' = Rejected("add_dish", h)
         /\ UNCHANGED <<dishes, seq>>
    ELSE IF PairExists(dishes, dish.name, dish.category_id)
    THEN /\ last' = Response("add_dish", h, 0, <<dish>>, HTTP_400_BAD_REQUEST,
                             NoContent, "closed")
         /\ UNCHANGED <<dishes, seq>>
    ELSE IF NameTaken(dishes, dish.name, 0)
    THEN \* sqlite3.IntegrityError out of the INSERT: nothing closes db
         /\ last' = Response("add_dish", h, 0, <<dish>>,
                             HTTP_500_INTERNAL_SERVER_ERROR, NoContent, "open")
         /\ UNCHANGED <<dishes, seq>>
    ELSE /\ seq < MaxId
         /\ dishes' = dishes \cup
                {[id |-> seq + 1, name |-> dish.name,
                  category_id |-> dish.category_id,
                  availability |-> BoolToSql(dish.availability),
                  stock |-> dish.stock]}
         /\ seq' = seq + 1
         /\ last' = Response("add_dish", h, seq + 1, <<dish>>, HTTP_201_CREATED,
                             <<AddContent(seq + 1, dish)>>, "closed")

\* UPDATE dishes SET name, category_id, availability, stock WHERE id = ?
UpdateSet(d, dish_id, dish) ==
    {IF r.id = dish_id
     THEN [id |-> r.id, name |-> dish.name, category_id |-> dish.category_id,
           availability |-> BoolToSql(dish.availability), stock |-> dish.stock]
     ELSE r : r \in d}

update_dish(h, dish_id, updated_dish) ==
    IF ~oauth_scheme(h)
    THEN /\ last' = Rejected("update_dish", h)
         /\ UNCHANGED <<dishes, seq>>
    ELSE IF RowsWithId(dishes, dish_id) # {} /\ NameTaken(dishes, updated_dish.name, dish_id)
    THEN \* sqlite3.IntegrityError out of the UPDATE: nothing closes db
         /\ last' = Response("update_dish", h, dish_id, <<updated_dish>>,
                             HTTP_500_INTERNAL_SERVER_ERROR, NoContent, "open")
         /\ UNCHANGED <<dishes, seq>>
    ELSE /\ dishes' = UpdateSet(dishes, dish_id, updated_dish)
         /\ UNCHANGED seq
         /\ LET rowcount == Cardinality(RowsWithId(dishes, dish_id))
            IN last' = IF rowcount = 0
                       THEN Response("update_dish", h, dish_id, <<updated_dish>>,
                                     HTTP_404_NOT_FOUND, NoContent, "closed")
                       ELSE Response("update_dish", h, dish_id, <<updated_dish>>,
                                     HTTP_200_OK, <<updated_dish>>, "closed")

\* the DELETE without its WHERE clause
DeleteFromAll(d, dish_id) == {}

\* DELETE FROM dishes WHERE id = ?
DeleteFrom(d, dish_id) == d \ RowsWithId(d, dish_id)

delete_dish(h, dish_id) ==
    IF ~oauth_scheme(h)
    THEN /\ last' = Rejected("delete_dish", h)
         /\ UNCHANGED <<dishes, seq>>
    ELSE /\ dishes' = DeleteFrom(dishes, dish_id)
         /\ UNCHANGED seq
         /\ LET rowcount == Cardinality(dishes) - Cardinality(DeleteFrom(dishes, dish_id))
            IN last' = Response("delete_dish", h, dish_id, <<>>,
                                IF rowcount = 0 THEN HTTP_404_NOT_FOUND ELSE HTTP_200_OK,
                                NoContent, "closed")

\* dict(dish) of the fetched row, through response_model=Dish
GetContent(d, dish_id) == RowsInOrder(RowsWithId(d, dish_id))

get_dish_by_id(dish_id) ==
    /\ UNCHANGED <<dishes, seq>>
    /\ LET dish == RowsWithId(dishes, dish_id)
       IN last' = IF dish = {}
                  THEN Response("get_dish_by_id", NoHeader, dish_id, <<>>,
                                HTTP_404_NOT_FOUND, NoContent, "closed")
                  ELSE Response("get_dish_by_id", NoHeader, dish_id, <<>>,
                                HTTP_200_OK, GetContent(dishes, dish_id), "closed")

\* SELECT * FROM dishes WHERE 1=1 [AND category_id = ?] [AND availability = ?]
Filtered(d, category_id, availability) ==
    {r \in d :
        /\ category_id # None => r.category_id = category_id[1]
        /\ availability # None => r.availability = BoolToSql(availability[1])}

get_dishes(category_id, availability) ==
    /\ UNCHANGED <<dishes, seq>>
    /\ last' = Response("get_dishes", NoHeader, 0, <<category_id, availability>>,
                        HTTP_200_OK,
                        RowsInOrder(Filtered(dishes, category_id, availability)),
                        "closed")

\* UPDATE dishes SET availability = 0 WHERE id = ?
SetUnavailable(d, dish_id) ==
    {IF r.id = dish_id THEN [r EXCEPT !.availability = 0] ELSE r : r \in d}

mark_dish_out_of_stock(dish_id) ==
    /\ dishes' = SetUnavailable(dishes, dish_id)
    /\ UNCHANGED seq
    /\ LET rowcount == Cardinality(RowsWithId(dishes, dish_id))
       IN last' = Response("mark_dish_out_of_stock", NoHeader, dish_id, <<>>,
                           IF rowcount = 0 THEN HTTP_404_NOT_FOUND ELSE HTTP_200_OK,
                           NoContent, "closed")

\* UPDATE dishes SET stock = ? WHERE id = ?
SetStock(d, dish_id, stock) ==
    {IF r.id = dish_id THEN [r EXCEPT !.stock = Some(stock)] ELSE r : r \in d}

update_dish_stock(dish_id, stock) ==
    /\ dishes' = SetStock(dishes, dish_id, stock)
    /\ UNCHANGED seq
    /\ LET rowcount == Cardinality(RowsWithId(dishes, dish_id))
       IN last' = Response("update_dish_stock", NoHeader, dish_id, <<stock>>,
                           IF rowcount = 0 THEN HTTP_404_NOT_FOUND ELSE HTTP_200_OK,
                           NoContent, "closed")

get_out_of_stock_dishes(h) ==
    /\ UNCHANGED <<dishes, seq>>
    /\ last' = IF ~oauth_scheme(h)
               THEN Rejected("get_out_of_stock_dishes", h)
               ELSE IF {r \in dishes : r.availability = 0} = {}
               THEN Response("get_out_of_stock_dishes", h, 0, <<>>, HTTP_200_OK,
                             <<[message |-> "No out-of-stock dishes found"]>>,
                             "closed")
               ELSE \* no response_model: the rows go out as stored
                    Response("get_out_of_stock_dishes", h, 0, <<>>, HTTP_200_OK,
                             RowDicts({r \in dishes : r.availability = 0}),
                             "closed")

get_inventory_report(h) ==
    /\ UNCHANGED <<dishes, seq>>
    /\ last' = IF ~oauth_scheme(h)
               THEN Rejected("get_inventory_report", h)
               ELSE Response("get_inventory_report", h, 0, <<>>, HTTP_200_OK,
                             <<[in_stock |-> InStockCount(dishes),
                                out_of_stock |-> OutOfStockCount(dishes)]>>,
                             "closed")

\* POST /token: the submitted username comes back as the access token
token_generate(username) ==
    /\ UNCHANGED <<dishes, seq>>
    /\ last' = Response("token_generate", NoHeader, 0, <<>>, HTTP_200_OK,
                        <<[access_token |-> username, token_type |-> "bearer"]>>,
                        "none")

\* the shutdown hook opens a connection and closes it
shutdown ==
    /\ UNCHANGED <<dishes, seq>>
    /\ last' = Response("shutdown", NoHeader, 0, <<>>, 0, NoContent, "closed")

(***************************************************************************)
(* Identity Service                                                        *)
(***************************************************************************)
Usernames == {"alice", "bob"}
Passwords == {"pw1", "pw2"}
Salts == {"s1", "s2"}

\* app.config['JWT_SECRET_KEY']
JWT_SECRET_KEY == "your_jwt_secret_key"
\* timedelta(hours=1), in hours
TokenLifetime == 1

\* werkzeug: a salted one-way hash, stored with its salt
generate_password_hash(password, salt) ==
    [salt |-> salt, digest |-> <<salt, password>>]
check_password_hash(pwhash, password) ==
    pwhash.digest = <<pwhash.salt, password>>

\* HS256 over the payload
Sign(key, username, exp) == <<key, username, exp>>

create_jwt_token(username) ==
    [username |-> username, exp |-> now + TokenLifetime,
     sig |-> Sign(JWT_SECRET_KEY, username, now + TokenLifetime)]

\* what the client may put in the token field or cookie
EmptyToken == [username |-> "", exp |-> 0, sig |-> <<>>]
MalformedToken == [username |-> "garbage", exp |-> 0, sig |-> <<>>]
\* a token the server minted, with another username written into its payload
Tampered(t) == [t EXCEPT !.username = IF t.username = "alice" THEN "bob" ELSE "alice"]
PresentableTokens ==
    {EmptyToken, MalformedToken} \cup
    (IF cookie = <<>> THEN {} ELSE {cookie[1], Tampered(cookie[1])})

\* jwt.decode: the signature is verified first, then the exp claim
JwtDecode(token) ==
    IF token.sig # Sign(JWT_SECRET_KEY, token.username, token.exp) THEN "InvalidTokenError"
    ELSE IF token.exp <= now THEN "ExpiredSignatureError"
    ELSE "ok"

\* the users table declared without UNIQUE on username
UsernameTakenNoConstraint(u, username) == FALSE

\* username TEXT UNIQUE NOT NULL
UsernameTaken(u, username) == \E r \in u : r.username = username

\* SELECT password FROM users WHERE username = ?  (fetchone)
SelectPassword(u, username) == {r.password : r \in {x \in u : x.username = username}}

NoTokenShown == <<>>

Page(op, username, password, new_password, token, status, message, action, shown, conn) ==
    [op |-> op, username |-> username, password |-> password,
     new_password |-> new_password, token |-> token, status |-> status,
     message |-> message, action |-> action, shown |-> shown, conn |-> conn]

\* CREATE TABLE IF NOT EXISTS users; the connection is never closed
users_startup ==
    /\ UNCHANGED <<users, useq, now, cookie>>
    /\ page' = Page("startup", "", "", "", EmptyToken, 0, "", "", NoTokenShown, "open")

get_register ==
    /\ UNCHANGED <<users, useq, now, cookie>>
    /\ page' = Page("get_register", "", "", "", EmptyToken, HTTP_200_OK, "",
                    "register", NoTokenShown, "none")

post_register(username, password, salt) ==
    /\ UNCHANGED <<now, cookie>>
    /\ IF UsernameTaken(users, username)
       THEN \* sqlite3.IntegrityError, caught
            /\ UNCHANGED <<users, useq>>
            /\ page' = Page("post_register", username, password, "", EmptyToken,
                            HTTP_200_OK, "Username already exists.", "register",
                            NoTokenShown, "open")
       ELSE /\ users' = users \cup
                   {[id |-> useq + 1, username |-> username,
                     password |-> generate_password_hash(password, salt)]}
            /\ useq' = useq + 1
            /\ page' = Page("post_register", username, password, "", EmptyToken,
                            HTTP_200_OK, "User registered successfully!", "register",
                            NoTokenShown, "open")

get_login ==
    /\ UNCHANGED <<users, useq, now, cookie>>
    /\ page' = Page("get_login", "", "", "", EmptyToken, HTTP_200_OK, "",
                    "login", NoTokenShown, "none")

post_login(username, password) ==
    /\ UNCHANGED <<users, useq, now>>
    /\ LET user == SelectPassword(users, username)
       IN IF user # {} /\ \E h \in user : check_password_hash(h, password)
          THEN /\ cookie' = <<create_jwt_token(username)>>
               /\ page' = Page("post_login", username, password, "", EmptyToken,
                               HTTP_200_OK, "Login successful. Welcome!",
                               "change-password", <<create_jwt_token(username)>>, "open")
          ELSE /\ UNCHANGED cookie
               /\ page' = Page("post_login", username, password, "", EmptyToken,
                               HTTP_200_OK, "Invalid username or password.",
                               "login", NoTokenShown, "open")

\* the cookie parameter is named token: the client sends what it likes
get_change_password(token) ==
    /\ UNCHANGED <<users, useq, now, cookie>>
    /\ page' =
         IF token = EmptyToken
         THEN Page("get_change_password", "", "", "", token, HTTP_200_OK,
                   "Token is missing", "login", NoTokenShown, "none")
         ELSE IF JwtDecode(token) = "ExpiredSignatureError"
         THEN Page("get_change_password", "", "", "", token, HTTP_200_OK,
                   "Expired token.", "login", NoTokenShown, "none")
         ELSE IF JwtDecode(token) = "InvalidTokenError"
         THEN \* only ExpiredSignatureError is caught
              Page("get_change_password", "", "", "", token,
                   HTTP_500_INTERNAL_SERVER_ERROR, "", "", NoTokenShown, "none")
         ELSE Page("get_change_password", token.username, "", "", token, HTTP_200_OK,
                   "", "change-password", NoTokenShown, "none")

\* UPDATE users SET password = ? WHERE username = ?
SetPassword(u, username, pwhash) ==
    {IF r.username = username THEN [r EXCEPT !.password = pwhash] ELSE r : r \in u}

post_change_password(current_password, new_password, token, salt) ==
    /\ UNCHANGED <<useq, now, cookie>>
    /\ IF token = EmptyToken
       THEN /\ UNCHANGED users
            /\ page' = Page("post_change_password", "", current_password, new_password,
                            token, HTTP_200_OK, "Token is missing", "login",
                            NoTokenShown, "none")
       ELSE IF JwtDecode(token) = "ExpiredSignatureError"
       THEN /\ UNCHANGED users
            /\ page' = Page("post_change_password", "", current_password, new_password,
                            token, HTTP_200_OK, "Expired token.", "login",
                            NoTokenShown, "none")
       ELSE IF JwtDecode(token) = "InvalidTokenError"
       THEN \* only ExpiredSignatureError is caught
            /\ UNCHANGED users
            /\ page' = Page("post_change_password", "", current_password, new_password,
                            token, HTTP_500_INTERNAL_SERVER_ERROR, "", "",
                            NoTokenShown, "none")
       ELSE LET user == SelectPassword(users, token.username)
            IN IF user # {} /\ \E h \in user : check_password_hash(h, current_password)
               THEN /\ users' = SetPassword(users, token.username,
                                            generate_password_hash(new_password, salt))
                    /\ page' = Page("post_change_password", token.username,
                                    current_password, new_password, token, HTTP_200_OK,
                                    "Password changed successfully.", "change-password",
                                    NoTokenShown, "open")
               ELSE /\ UNCHANGED users
                    /\ page' = Page("post_change_password", token.username,
                                    current_password, new_password, token, HTTP_200_OK,
                                    "Incorrect current password.", "change-password",
                                    NoTokenShown, "open")

\* an hour passes
Tick ==
    /\ now < MaxTime
    /\ now' = now + 1
    /\ UNCHANGED <<users, useq, cookie, page>>

Init ==
    /\ dishes = Seeded({}, 0).d
    /\ seq = Seeded({}, 0).q
    /\ last = Response("startup", NoHeader, 0, <<>>, 0, NoContent, "closed")
    /\ users = {}
    /\ useq = 0
    /\ now = 0
    /\ cookie = <<>>
    /\ page = Page("startup", "", "", "", EmptyToken, 0, "", "", NoTokenShown, "open")
    /\ procs = <<>>

Next ==
    \/ startup /\ UNCHANGED <<identityVars, procs>>
    \/ shutdown /\ UNCHANGED <<identityVars, procs>>
    \/ \E h \in Headers, dish \in Dish :
          add_dish(h, dish) /\ UNCHANGED <<identityVars, procs>>
    \/ \E h \in Headers, dish_id \in DishIds, dish \in Dish :
          update_dish(h, dish_id, dish) /\ UNCHANGED <<identityVars, procs>>
    \/ \E h \in Headers, dish_id \in DishIds :
          delete_dish(h, dish_id) /\ UNCHANGED <<identityVars, procs>>
    \/ \E dish_id \in DishIds :
          get_dish_by_id(dish_id) /\ UNCHANGED <<identityVars, procs>>
    \/ \E c \in {None} \cup {Some(x) : x \in CategoryIds},
          a \in {None} \cup {Some(x) : x \in BOOLEAN} :
          get_dishes(c, a) /\ UNCHANGED <<identityVars, procs>>
    \/ \E dish_id \in DishIds :
          mark_dish_out_of_stock(dish_id) /\ UNCHANGED <<identityVars, procs>>
    \/ \E dish_id \in DishIds, stock \in StockQuantities :
          update_dish_stock(dish_id, stock) /\ UNCHANGED <<identityVars, procs>>
    \/ \E h \in Headers :
          get_out_of_stock_dishes(h) /\ UNCHANGED <<identityVars, procs>>
    \/ \E h \in Headers :
          get_inventory_report(h) /\ UNCHANGED <<identityVars, procs>>
    \/ \E username \in {"alice", "garbage"} :
          token_generate(username) /\ UNCHANGED <<identityVars, procs>>

Spec == Init /\ [][Next]_vars

NextIdentity ==
    \/ users_startup /\ UNCHANGED <<menuVars, procs>>
    \/ get_register /\ UNCHANGED <<menuVars, procs>>
    \/ \E username \in Usernames, password \in Passwords, salt \in Salts :
          post_register(username, password, salt) /\ UNCHANGED <<menuVars, procs>>
    \/ get_login /\ UNCHANGED <<menuVars, procs>>
    \/ \E username \in Usernames, password \in Passwords :
          post_login(username, password) /\ UNCHANGED <<menuVars, procs>>
    \/ \E token \in PresentableTokens :
          get_change_password(token) /\ UNCHANGED <<menuVars, procs>>
    \/ \E current_password \in Passwords, new_password \in Passwords,
          token \in PresentableTokens, salt \in Salts :
          post_change_password(current_password, new_password, token, salt)
          /\ UNCHANGED <<menuVars, procs>>
    \/ Tick /\ UNCHANGED <<menuVars, procs>>

SpecIdentity == Init /\ [][NextIdentity]_vars

(***************************************************************************)
(* Two add_dish requests in two worker processes.  Each request carries a  *)
(* bearer token.  SQLite serialises writers, so the INSERT and its commit  *)
(* are one step; the SELECT of the other request may fall before or after. *)
(***************************************************************************)
Workers == {1, 2}

InitConc ==
    /\ dishes = Seeded({}, 0).d
    /\ seq = Seeded({}, 0).q
    /\ last = Response("startup", NoHeader, 0, <<>>, 0, NoContent, "closed")
    /\ users = {}
    /\ useq = 0
    /\ now = 0
    /\ cookie = <<>>
    /\ page = Page("startup", "", "", "", EmptyToken, 0, "", "", NoTokenShown, "open")
    /\ procs \in [Workers -> [pc : {"start"}, dish : Dish, found : {FALSE},
                              status : {0}, dish_id : {0}, conn : {"none"}]]

\* get_db, the SELECT and fetchone, and the Conflict branch
add_dish_check(w) ==
    /\ procs[w].pc = "start"
    /\ UNCHANGED <<dishes, seq>>
    /\ LET found == PairExists(dishes, procs[w].dish.name, procs[w].dish.category_id)
       IN procs' = [procs EXCEPT ![w] =
               IF found
               THEN [@ EXCEPT !.pc = "done", !.found = TRUE,
                              !.status = HTTP_400_BAD_REQUEST, !.conn = "closed"]
               ELSE [@ EXCEPT !.pc = "checked", !.conn = "open"]]

\* the INSERT, commit, lastrowid, close and the response
add_dish_insert(w) ==
    /\ procs[w].pc = "checked"
    /\ IF NameTaken(dishes, procs[w].dish.name, 0)
       THEN \* sqlite3.IntegrityError: nothing catches it, nothing closes db
            /\ UNCHANGED <<dishes, seq>>
            /\ procs' = [procs EXCEPT ![w] =
                    [@ EXCEPT !.pc = "done", !.status = HTTP_500_INTERNAL_SERVER_ERROR]]
       ELSE /\ dishes' = dishes \cup
                   {[id |-> seq + 1, name |-> procs[w].dish.name,
                     category_id |-> procs[w].dish.category_id,
                     availability |-> BoolToSql(procs[w].dish.availability),
                     stock |-> procs[w].dish.stock]}
            /\ seq' = seq + 1
            /\ procs' = [procs EXCEPT ![w] =
                    [@ EXCEPT !.pc = "done", !.status = HTTP_201_CREATED,
                              !.dish_id = seq + 1, !.conn = "closed"]]

NextConc ==
    \/ \E w \in Workers : add_dish_check(w) /\ UNCHANGED <<last, identityVars>>
    \/ \E w \in Workers : add_dish_insert(w) /\ UNCHANGED <<last, identityVars>>

SpecConc == InitConc /\ [][NextConc]_vars

(***************************************************************************)
(* Properties                                                              *)
(***************************************************************************)
GatedOps ==
    {"add_dish", "update_dish", "delete_dish", "get_out_of_stock_dishes",
     "get_inventory_report"}

SubmittedFields(dish) ==
    [name |-> dish.name, category_id |-> dish.category_id,
     availability |-> dish.availability, stock |-> dish.stock]

ReturnedFields(content) ==
    [name |-> content.name, category_id |-> content.category_id,
     availability |-> content.availability, stock |-> content.stock]

\* C1: every Add dish request with a token whose name+category_id pair is not
\* in the table succeeds with 201 Created, and Get dish by id for the inserted
\* row then returns the submitted name, category_id, availability and stock.
C1_AddOfNewPairSucceeds ==
    [][(/\ last'.op = "add_dish"
        /\ last'.auth # NoHeader
        /\ ~\E r \in dishes : /\ r.name = last'.body[1].name
                              /\ r.category_id = last'.body[1].category_id)
       => /\ last'.status = HTTP_201_CREATED
          /\ Len(GetContent(dishes', last'.dish_id)) = 1
          /\ ReturnedFields(GetContent(dishes', last'.dish_id)[1])
                = SubmittedFields(last'.body[1])]_vars

\* C2: an Add dish request (with a token) whose name+category_id pair is
\* already in the table fails with 400 and leaves the row count unchanged.
C2_DuplicatePairIsConflict ==
    [][(/\ last'.op = "add_dish"
        /\ last'.auth # NoHeader
        /\ \E r \in dishes : /\ r.name = last'.body[1].name
                             /\ r.category_id = last'.body[1].category_id)
       => /\ last'.status = HTTP_400_BAD_REQUEST
          /\ Cardinality(dishes') = Cardinality(dishes)]_vars

\* C2 witness: an Add dish of a pair the table holds was answered 400.
C2_Witness ==
    /\ last.op = "add_dish"
    /\ last.status = HTTP_400_BAD_REQUEST
    /\ \E r \in dishes : /\ r.name = last.body[1].name
                         /\ r.category_id = last.body[1].category_id

\* C3: the id in the response of a successful Add dish is the id the store
\* assigned: Get dish by id with the returned id yields the added dish.
C3_ReturnedIdIsAssignedId ==
    (last.op = "add_dish" /\ last.status = HTTP_201_CREATED)
    => /\ last.content[1].id = last.dish_id
       /\ Len(GetContent(dishes, last.content[1].id)) = 1
       /\ ReturnedFields(GetContent(dishes, last.content[1].id)[1])
             = SubmittedFields(last.body[1])

\* C4: Update dish and Delete dish with an id matching no row fail with 404
\* and leave every row of the table unchanged.
C4_MissingIdIsNotFound ==
    [][(/\ last'.op \in {"update_dish", "delete_dish"}
        /\ last'.auth # NoHeader
        /\ ~\E r \in dishes : r.id = last'.dish_id)
       => /\ last'.status = HTTP_404_NOT_FOUND
          /\ dishes' = dishes]_vars

\* C4 witness: a Delete dish of an id absent from a non-empty table was
\* answered 404.
C4_Witness ==
    /\ last.op = "delete_dish"
    /\ last.status = HTTP_404_NOT_FOUND
    /\ dishes # {}
    /\ ~\E r \in dishes : r.id = last.dish_id

\* Every request handler of the Identity Service renders a page; the clock's
\* Tick is the one step that leaves the page as it was, and the one step that
\* moves the clock.

\* a credential with a valid signature that has not expired
ValidAndCurrent(token) ==
    /\ token.sig = Sign(JWT_SECRET_KEY, token.username, token.exp)
    /\ token.exp > now

\* C5: Change password overwrites the stored hash only under a
\* valid-and-current credential; under an expired or malformed /
\* invalid-signature credential it ends with a login-required page (status
\* 200, action login) and the users table unchanged.
C5_OnlyValidCredentialChangesPassword ==
    [][(page'.op = "post_change_password" /\ now' = now)
       => /\ users' # users => ValidAndCurrent(page'.token)
          /\ ~ValidAndCurrent(page'.token)
                => /\ users' = users
                   /\ page'.status = HTTP_200_OK
                   /\ page'.action = "login"]_vars

\* C6: no request completes with the store connection it acquired still
\* open.
C6_ConnectionReleased ==
    page.op \in {"post_register", "post_login", "post_change_password"}
    => page.conn # "open"

\* C7: a request to a gated operation without a bearer token is answered 401
\* and leaves the dishes table as it was; a request with any token string
\* passes the gate.
C7_GateRejectsMissingToken ==
    [][last'.op \in GatedOps
       => /\ last'.auth = NoHeader
                => /\ last'.status = HTTP_401_UNAUTHORIZED
                   /\ dishes' = dishes
                   /\ seq' = seq
          /\ last'.auth # NoHeader => last'.status # HTTP_401_UNAUTHORIZED]_vars

\* C7 witness: a token-less Delete dish of an existing id was answered 401.
C7_Witness ==
    /\ last.op = "delete_dish"
    /\ last.auth = NoHeader
    /\ last.status = HTTP_401_UNAUTHORIZED
    /\ Cardinality(dishes) = 3

\* C8: Register of a username the table holds yields the duplicate-username
\* message and leaves the users table (row count and stored hashes) as it
\* was; Register of a new username adds exactly one row, holding a hash of the
\* submitted password.
C8_SecondRegisterIsRejected ==
    [][(page'.op = "post_register" /\ now' = now)
       => IF \E r \in users : r.username = page'.username
          THEN /\ page'.message = "Username already exists."
               /\ users' = users
          ELSE /\ page'.message = "User registered successfully!"
               /\ users \subseteq users'
               /\ Cardinality(users') = Cardinality(users) + 1
               /\ \E r \in users' \ users :
                     /\ r.username = page'.username
                     /\ check_password_hash(r.password, page'.password)]_vars

\* C8 witness: a second Register of a username, with another password, got
\* the duplicate-username message.
C8_Witness ==
    /\ page.op = "post_register"
    /\ page.message = "Username already exists."
    /\ \E r \in users : /\ r.username = page.username
                        /\ ~check_password_hash(r.password, page.password)

\* C9: in every reachable state the report's in_stock + out_of_stock equals
\* the number of rows of the dishes table.
C9_ReportCountsAddUp ==
    /\ InStockCount(dishes) + OutOfStockCount(dishes) = Cardinality(dishes)
    /\ (last.op = "get_inventory_report" /\ last.status = HTTP_200_OK)
       => last.content[1].in_stock + last.content[1].out_of_stock
             = Cardinality(dishes)

\* C9 witness: a report over a table holding in-stock and out-of-stock rows,
\* one of the in-stock rows with no stock quantity.
C9_Witness ==
    /\ last.op = "get_inventory_report"
    /\ last.status = HTTP_200_OK
    /\ last.content[1].in_stock > 0
    /\ last.content[1].out_of_stock > 0
    /\ \E r \in dishes : r.availability = 1 /\ r.stock = None

\* C10: two concurrent Add dish requests with the same name and category_id,
\* against a table without that pair: under every interleaving exactly one
\* is answered 201 and the other 400, and the table gains exactly one row.
C10_OneCreatedOneConflict ==
    (/\ \A w \in Workers : procs[w].pc = "done"
     /\ procs[1].dish.name = procs[2].dish.name
     /\ procs[1].dish.category_id = procs[2].dish.category_id
     /\ ~\E r \in Seeded({}, 0).d : /\ r.name = procs[1].dish.name
                                    /\ r.category_id = procs[1].dish.category_id)
    => /\ {procs[w].status : w \in Workers}
             = {HTTP_201_CREATED, HTTP_400_BAD_REQUEST}
       /\ Cardinality(dishes) = Cardinality(Seeded({}, 0).d) + 1

=============================================================================
